---- MODULE Spec2Model ----
(***************************************************************************)
(* Entity descriptors of hass-mqtt-discovery: the Switch platform entity   *)
(* with its validation (crates/discovery/src/entity/switch.rs) and the     *)
(* Sensor platform entity (crates/discovery/src/entity/sensor.rs), both    *)
(* with the wire encoding their serde attributes define.                   *)
(*                                                                         *)
(* An Option<T> is a sequence of length 0 (None) or 1 (Some(v)).           *)
(* A semval::Context<V> is the sequence of the invalidities it holds.      *)
(* A wire payload is a function from the keys it holds to their values.    *)
(***************************************************************************)
EXTENDS Naturals, Sequences, FiniteSets, TLC

VARIABLES
  kind,   \* which platform entity the caller constructed: "switch" | "sensor"
  sw,     \* the Switch value
  sn,     \* the Sensor value
  pc,     \* the caller's position
  res,    \* the result of validate()
  res2,   \* the result of a second validate() on the same value
  wire,   \* the encoded payload
  dec,    \* the result of decoding wire
  wire2   \* the payload encoded from the decoded value

vars == <<kind, sw, sn, pc, res, res2, wire, dec, wire2>>

(***************************************************************************)
(* Bounds of the model.                                                    *)
(***************************************************************************)
\* longest availability list an entity is constructed with
MaxAvailability == 1
\* most Sensor fields, state_topic aside, constructed away from their default
MaxSensorSet == 2

(***************************************************************************)
(* Option<T>                                                               *)
(***************************************************************************)
None == <<>>

Some(v) == <<v>>

is_none(o) == Len(o) = 0

OptionOf(S) == {None} \cup {Some(v) : v \in S}

(***************************************************************************)
(* Primitive values.  A Topic, Payload or Template wraps a string; its     *)
(* validate() reports Empty for the empty string.                          *)
(***************************************************************************)
TopicValues == {"", "home/switch/1"}

PayloadValues == {"", "ON"}

TemplateValues == {"", "{{ value_json.state }}"}

TopicValidate(t) == IF t = "" THEN <<"Empty">> ELSE <<>>

PayloadValidate(p) == IF p = "" THEN <<"Empty">> ELSE <<>>

TemplateValidate(t) == IF t = "" THEN <<"Empty">> ELSE <<>>

DeviceValidate(d) ==
  IF d.identifiers = <<>> /\ d.connections = <<>> THEN <<"NoIdentifier">> ELSE <<>>

\* Validate::validate of a target, by the target's type
TargetValidate(type, v) ==
  CASE type = "Topic" -> TopicValidate(v)
    [] type = "Payload" -> PayloadValidate(v)
    [] type = "Template" -> TemplateValidate(v)
    [] type = "Device" -> DeviceValidate(v)

(***************************************************************************)
(* semval::Context: an accumulator of invalidities.                        *)
(***************************************************************************)
RECURSIVE MapSeq(_, _)
MapSeq(s, variant) ==
  IF s = <<>> THEN <<>>
  ELSE <<[variant |-> variant, inner |-> Head(s)]>> \o MapSeq(Tail(s), variant)

ContextNew == <<>>

\* Context::validate_with(target, map): the target's invalidities, each
\* wrapped by map, appended to the context
validate_with(ctx, invalidities) == ctx \o invalidities

\* ValidateContextExt::validate_with_opt(target, map): as validate_with when
\* the option holds a value, the context unchanged when it is None
validate_with_opt(ctx, opt, type, variant) ==
  IF is_none(opt) THEN ctx
  ELSE validate_with(ctx, MapSeq(TargetValidate(type, opt[1]), variant))

\* Context::into(): Ok(()) when nothing was accumulated, Err(context) otherwise
ContextInto(ctx) == [ok |-> ctx = <<>>, invalidities |-> ctx]

(***************************************************************************)
(* The shared Entity attributes a platform entity embeds.                  *)
(***************************************************************************)
DeviceValues ==
  { [identifiers |-> <<>>, connections |-> <<>>],
    [identifiers |-> <<"hub-1">>, connections |-> <<>>] }


AvailabilityLists ==
  UNION { [1..n -> {"home/avail"}] : n \in 0..MaxAvailability }

Entities ==
  [ availability : AvailabilityLists,
    availability_topic : OptionOf({"home/switch/1"}),
    device : OptionOf(DeviceValues) ]

EntityDefault ==
  [availability |-> <<>>, availability_topic |-> None, device |-> None]

EntityValidate(e) ==
  LET c0 == ContextNew
      c1 == IF e.availability # <<>> /\ ~is_none(e.availability_topic)
            THEN c0 \o <<[variant |-> "AvailabilityConflict", inner |-> "Unit"]>>
            ELSE c0
      c2 == validate_with_opt(c1, e.device, "Device", "Device")
  IN  c2

(***************************************************************************)
(* Switch                                                                  *)
(***************************************************************************)
\* DeviceClass variants; "None" is the variant DeviceClass::is_none accepts
DeviceClassValues == {"None", "Switch", "Temperature"}

SwitchDefault ==
  [ entity |-> EntityDefault,
    command_topic |-> None, device_class |-> None, optimistic |-> None,
    payload_off |-> None, payload_on |-> None, retain |-> None,
    state_off |-> None, state_on |-> None, state_topic |-> None,
    value_template |-> None ]

\* Variants of Switch::validate, each a slip the code could have made.
\* Fail-fast: the first part that reports anything ends the validation.
RECURSIVE FirstNonEmpty(_)
FirstNonEmpty(parts) ==
  IF parts = <<>> THEN <<>>
  ELSE IF Head(parts) # <<>> THEN Head(parts)
  ELSE FirstNonEmpty(Tail(parts))

SwitchValidate_ShortCircuit(s) ==
  ContextInto(FirstNonEmpty(<<
    EntityValidate(s.entity),
    validate_with_opt(ContextNew, s.command_topic, "Topic", "Topic"),
    validate_with_opt(ContextNew, s.payload_on, "Payload", "Payload"),
    validate_with_opt(ContextNew, s.payload_off, "Payload", "Payload"),
    validate_with_opt(ContextNew, s.state_topic, "Topic", "Topic"),
    validate_with_opt(ContextNew, s.state_on, "Payload", "Payload"),
    validate_with_opt(ContextNew, s.state_off, "Payload", "Payload"),
    validate_with_opt(ContextNew, s.value_template, "Template", "Template") >>))

\* the two topics checked first, the payloads after them
SwitchValidate_Reordered(s) ==
  LET c0 == ContextNew
      c1 == validate_with(c0, EntityValidate(s.entity))
      c2 == validate_with_opt(c1, s.command_topic, "Topic", "Topic")
      c3 == validate_with_opt(c2, s.state_topic, "Topic", "Topic")
      c4 == validate_with_opt(c3, s.payload_on, "Payload", "Payload")
      c5 == validate_with_opt(c4, s.payload_off, "Payload", "Payload")
      c6 == validate_with_opt(c5, s.state_on, "Payload", "Payload")
      c7 == validate_with_opt(c6, s.state_off, "Payload", "Payload")
      c8 == validate_with_opt(c7, s.value_template, "Template", "Template")
  IN  ContextInto(c8)

\* each violation wrapped by a variant naming its field
SwitchValidate_ByField(s) ==
  LET c0 == ContextNew
      c1 == validate_with(c0, EntityValidate(s.entity))
      c2 == validate_with_opt(c1, s.command_topic, "Topic", "CommandTopic")
      c3 == validate_with_opt(c2, s.payload_on, "Payload", "PayloadOn")
      c4 == validate_with_opt(c3, s.payload_off, "Payload", "PayloadOff")
      c5 == validate_with_opt(c4, s.state_topic, "Topic", "StateTopic")
      c6 == validate_with_opt(c5, s.state_on, "Payload", "StateOn")
      c7 == validate_with_opt(c6, s.state_off, "Payload", "StateOff")
      c8 == validate_with_opt(c7, s.value_template, "Template", "ValueTemplate")
  IN  ContextInto(c8)

\* a cross-field rule added: command_topic with optimistic mode, or both
\* payloads with a state topic
SwitchValidate_CrossField(s) ==
  LET c0 == ContextNew
      c1 == validate_with(c0, EntityValidate(s.entity))
      c2 == validate_with_opt(c1, s.command_topic, "Topic", "Topic")
      c3 == validate_with_opt(c2, s.payload_on, "Payload", "Payload")
      c4 == validate_with_opt(c3, s.payload_off, "Payload", "Payload")
      c5 == validate_with_opt(c4, s.state_topic, "Topic", "Topic")
      c6 == validate_with_opt(c5, s.state_on, "Payload", "Payload")
      c7 == validate_with_opt(c6, s.state_off, "Payload", "Payload")
      c8 == validate_with_opt(c7, s.value_template, "Template", "Template")
      formA == ~is_none(s.command_topic) /\ s.optimistic = Some(TRUE)
      formB == /\ ~is_none(s.payload_on) /\ ~is_none(s.payload_off)
               /\ ~is_none(s.state_topic)
      c9 == IF formA \/ formB THEN c8
            ELSE c8 \o <<[variant |-> "Topic", inner |-> "Missing"]>>
  IN  ContextInto(c9)

\* the embedded entity left out
SwitchValidate_NoEntity(s) ==
  LET c1 == ContextNew
      c2 == validate_with_opt(c1, s.command_topic, "Topic", "Topic")
      c3 == validate_with_opt(c2, s.payload_on, "Payload", "Payload")
      c4 == validate_with_opt(c3, s.payload_off, "Payload", "Payload")
      c5 == validate_with_opt(c4, s.state_topic, "Topic", "Topic")
      c6 == validate_with_opt(c5, s.state_on, "Payload", "Payload")
      c7 == validate_with_opt(c6, s.state_off, "Payload", "Payload")
      c8 == validate_with_opt(c7, s.value_template, "Template", "Template")
  IN  ContextInto(c8)

\* the state fields checked only when the switch is not optimistic
SwitchValidate_ReadsOptimistic(s) ==
  LET c0 == ContextNew
      c1 == validate_with(c0, EntityValidate(s.entity))
      c2 == validate_with_opt(c1, s.command_topic, "Topic", "Topic")
      c3 == validate_with_opt(c2, s.payload_on, "Payload", "Payload")
      c4 == validate_with_opt(c3, s.payload_off, "Payload", "Payload")
      c5 == IF s.optimistic = Some(TRUE) THEN c4
            ELSE validate_with_opt(c4, s.state_topic, "Topic", "Topic")
      c6 == validate_with_opt(c5, s.state_on, "Payload", "Payload")
      c7 == validate_with_opt(c6, s.state_off, "Payload", "Payload")
      c8 == validate_with_opt(c7, s.value_template, "Template", "Template")
  IN  ContextInto(c8)

\* Switch::validate
SwitchValidate(s) ==
  LET c0 == ContextNew
      c1 == validate_with(c0, EntityValidate(s.entity))
      c2 == validate_with_opt(c1, s.command_topic, "Topic", "Topic")
      c3 == validate_with_opt(c2, s.payload_on, "Payload", "Payload")
      c4 == validate_with_opt(c3, s.payload_off, "Payload", "Payload")
      c5 == validate_with_opt(c4, s.state_topic, "Topic", "Topic")
      c6 == validate_with_opt(c5, s.state_on, "Payload", "Payload")
      c7 == validate_with_opt(c6, s.state_off, "Payload", "Payload")
      c8 == validate_with_opt(c7, s.value_template, "Template", "Template")
  IN  ContextInto(c8)

\* the Switch values validation is exercised on: every combination of
\* absent, ill-formed and well-formed for the seven validated fields, with
\* and without optimistic mode
ValidationSwitches ==
  { [SwitchDefault EXCEPT
       !.entity = e, !.command_topic = ct, !.payload_on = pon,
       !.payload_off = poff, !.state_topic = st, !.state_on = son,
       !.state_off = soff, !.value_template = vt, !.optimistic = opt] :
    e \in Entities, opt \in {None, Some(TRUE)},
    ct \in OptionOf(TopicValues), pon \in OptionOf(PayloadValues),
    poff \in OptionOf(PayloadValues), st \in OptionOf(TopicValues),
    son \in OptionOf(PayloadValues), soff \in OptionOf(PayloadValues),
    vt \in OptionOf(TemplateValues) }

(***************************************************************************)
(* Wire encoding.  A payload is a function from the keys it holds to JSON  *)
(* values: a string, a boolean, a number, a list or an object.             *)
(***************************************************************************)
\* the token serde writes for a unit variant of an enum
EnumToken(v) ==
  CASE v = "None" -> "None"
    [] v = "Switch" -> "switch"
    [] v = "Temperature" -> "temperature"
    [] v = "Config" -> "config"
    [] v = "Measurement" -> "measurement"
    [] v = "All" -> "all"
    [] v = "Any" -> "any"
    [] v = "Latest" -> "latest"

EnumVariants ==
  {"None", "Switch", "Temperature", "Config", "Measurement", "All", "Any", "Latest"}

EnumParse(tok) == CHOOSE v \in EnumVariants : EnumToken(v) = tok

\* MqttQoS is written as its level
QosToken(q) ==
  CASE q = "AtMostOnce" -> 0 [] q = "AtLeastOnce" -> 1 [] q = "ExactlyOnce" -> 2

QosParse(n) ==
  CASE n = 0 -> "AtMostOnce" [] n = 1 -> "AtLeastOnce" [] n = 2 -> "ExactlyOnce"

\* a key of no schema version the decoders know
UnknownKey == "zz_future_field"

Extend(w, k, v) == [x \in DOMAIN w \cup {k} |-> IF x = k THEN v ELSE w[x]]

Without(w, k) == [x \in DOMAIN w \ {k} |-> w[x]]

DecodeError(msg) == [ok |-> FALSE, error |-> msg]

(***************************************************************************)
(* Switch: #[derive(Serialize, Deserialize)] with its field attributes.    *)
(***************************************************************************)
EntityKeys == {"availability", "availability_topic", "device"}

SwitchOwnKeys ==
  { "command_topic", "device_class", "optimistic", "payload_off", "payload_on",
    "retain", "state_off", "state_on", "state_topic", "value_template" }

\* skip_serializing_if of the flattened entity's fields
EntitySkip(e, k) ==
  CASE k = "availability" -> e.availability = <<>>
    [] k = "availability_topic" -> is_none(e.availability_topic)
    [] k = "device" -> is_none(e.device)

EntityToken(e, k) ==
  CASE k = "availability" -> e.availability
    [] k = "availability_topic" -> e.availability_topic[1]
    [] k = "device" -> e.device[1]

\* every field of Switch itself is an Option skipped by Option::is_none
SwitchToken(s, k) ==
  IF k = "device_class" THEN EnumToken(s.device_class[1]) ELSE s[k][1]

\* what each field of Switch is rebuilt to: the value of its key, or the
\* default of #[serde(default)] when the key is absent
SwitchFromKeys(w) ==
  [ entity |->
      [ availability |->
          IF "availability" \in DOMAIN w THEN w.availability ELSE <<>>,
        availability_topic |->
          IF "availability_topic" \in DOMAIN w
          THEN Some(w.availability_topic) ELSE None,
        device |-> IF "device" \in DOMAIN w THEN Some(w.device) ELSE None ],
    command_topic |->
      IF "command_topic" \in DOMAIN w THEN Some(w.command_topic) ELSE None,
    device_class |->
      IF "device_class" \in DOMAIN w THEN Some(EnumParse(w.device_class))
      ELSE None,
    optimistic |->
      IF "optimistic" \in DOMAIN w THEN Some(w.optimistic) ELSE None,
    payload_off |->
      IF "payload_off" \in DOMAIN w THEN Some(w.payload_off) ELSE None,
    payload_on |->
      IF "payload_on" \in DOMAIN w THEN Some(w.payload_on) ELSE None,
    retain |-> IF "retain" \in DOMAIN w THEN Some(w.retain) ELSE None,
    state_off |-> IF "state_off" \in DOMAIN w THEN Some(w.state_off) ELSE None,
    state_on |-> IF "state_on" \in DOMAIN w THEN Some(w.state_on) ELSE None,
    state_topic |->
      IF "state_topic" \in DOMAIN w THEN Some(w.state_topic) ELSE None,
    value_template |->
      IF "value_template" \in DOMAIN w THEN Some(w.value_template) ELSE None ]

\* absent retain decoded as Some(false) instead of None
SwitchDecode_RetainFalse(w) ==
  [ok |-> TRUE,
   value |-> [SwitchFromKeys(w) EXCEPT
                !.retain = IF "retain" \in DOMAIN w THEN @ ELSE Some(FALSE)]]

\* #[serde(deny_unknown_fields)]
SwitchDecode_DenyUnknown(w) ==
  IF DOMAIN w \subseteq EntityKeys \cup SwitchOwnKeys
  THEN [ok |-> TRUE, value |-> SwitchFromKeys(w)]
  ELSE DecodeError("unknown field")

\* Deserialize for Switch: every field has #[serde(default)], the entity is
\* flattened, and keys neither of them knows are dropped
SwitchDecode(w) == [ok |-> TRUE, value |-> SwitchFromKeys(w)]

\* Serialize for Switch: the entity's keys flattened beside its own
SwitchEncode(s) ==
  [ k \in {x \in EntityKeys : ~EntitySkip(s.entity, x)}
          \cup {x \in SwitchOwnKeys : ~is_none(s[x])} |->
      IF k \in EntityKeys THEN EntityToken(s.entity, k) ELSE SwitchToken(s, k) ]

ValidDevice == [identifiers |-> <<"hub-1">>, connections |-> <<>>]

\* the Switch values the encoding is exercised on: every field absent or
\* well-formed

CodecSwitches ==
  { [ entity |-> [availability |-> av, availability_topic |-> at, device |-> dv],
      command_topic |-> ct, device_class |-> dc, optimistic |-> opt,
      payload_off |-> poff, payload_on |-> pon, retain |-> rt,
      state_off |-> soff, state_on |-> son, state_topic |-> st,
      value_template |-> vt ] :
    av \in AvailabilityLists, at \in OptionOf({"home/switch/1"}),
    dv \in OptionOf({ValidDevice}),
    ct \in OptionOf({"home/switch/1"}), dc \in OptionOf({"None", "Switch"}),
    opt \in OptionOf(BOOLEAN), rt \in OptionOf({FALSE}),
    poff \in OptionOf({"OFF"}), pon \in OptionOf({"ON"}),
    soff \in OptionOf({"OFF"}), son \in OptionOf({"ON"}),
    st \in OptionOf({"home/switch/1"}),
    vt \in OptionOf({"{{ value_json.state }}"}) }

(***************************************************************************)
(* Sensor: #[derive(Default, Serialize, Deserialize)] with its field       *)
(* attributes.  A Sensor is a function from its field names to values.     *)
(***************************************************************************)
SensorOptionFields ==
  { "availability_template", "availability_topic", "device",
    "enabled_by_default", "expire_after", "force_update", "icon",
    "json_attributes_template", "json_attributes_topic",
    "last_reset_value_template", "name", "object_id", "payload_available",
    "payload_not_available", "unique_id", "unit_of_measurement",
    "value_template" }

SensorFields ==
  SensorOptionFields
    \cup { "availability", "availability_mode", "device_class",
           "entity_category", "qos", "state_class", "state_topic" }

\* the predicates the skip_serializing_if attributes name
AvailabilityMode_is_default(m) == m = "Latest"

DeviceClass_is_none(c) == c = "None"

EntityCategory_is_none(c) == c = "None"

StateClass_is_none(c) == c = "None"

MqttQoS_is_default(q) == q = "AtMostOnce"

\* Default::default() of each field's type
SensorFieldDefault(f) ==
  CASE f = "availability" -> <<>>
    [] f = "availability_mode" -> "Latest"
    [] f \in {"device_class", "entity_category", "state_class"} -> "None"
    [] f = "qos" -> "AtMostOnce"
    [] f = "state_topic" -> ""
    [] OTHER -> None

SensorDefault == [f \in SensorFields |-> SensorFieldDefault(f)]

\* the skip_serializing_if attribute of each field; state_topic has none
SensorSkip(s, f) ==
  CASE f = "availability" -> s[f] = <<>>
    [] f = "availability_mode" -> AvailabilityMode_is_default(s[f])
    [] f = "device_class" -> DeviceClass_is_none(s[f])
    [] f = "entity_category" -> EntityCategory_is_none(s[f])
    [] f = "qos" -> MqttQoS_is_default(s[f])
    [] f = "state_class" -> StateClass_is_none(s[f])
    [] f = "state_topic" -> FALSE
    [] OTHER -> is_none(s[f])

SensorToken(s, f) ==
  CASE f \in {"availability", "state_topic"} -> s[f]
    [] f \in {"availability_mode", "device_class", "entity_category",
              "state_class"} -> EnumToken(s[f])
    [] f = "qos" -> QosToken(s[f])
    [] OTHER -> s[f][1]

SensorParse(f, v) ==
  CASE f \in {"availability", "state_topic"} -> v
    [] f \in {"availability_mode", "device_class", "entity_category",
              "state_class"} -> EnumParse(v)
    [] f = "qos" -> QosParse(v)
    [] OTHER -> Some(v)

\* qos written whatever its level
SensorEncode_QosAlways(s) ==
  [ k \in {f \in SensorFields : f = "qos" \/ ~SensorSkip(s, f)} |->
      SensorToken(s, k) ]

\* Serialize for Sensor
SensorEncode(s) ==
  [ k \in {f \in SensorFields : ~SensorSkip(s, f)} |-> SensorToken(s, k) ]

\* Deserialize for Sensor: state_topic is the one field without
\* #[serde(default)]; unknown keys are dropped
SensorDecode(w) ==
  IF "state_topic" \notin DOMAIN w
  THEN DecodeError("missing field state_topic")
  ELSE [ok |-> TRUE,
        value |-> [ f \in SensorFields |->
                      IF f \in DOMAIN w THEN SensorParse(f, w[f])
                      ELSE SensorFieldDefault(f) ]]

\* a value of field f other than its default
SensorAlt(f, i) ==
  CASE f = "availability" -> <<"home/avail">>
    [] f = "availability_mode" -> IF i = 1 THEN "All" ELSE "Any"
    [] f = "device_class" -> "Temperature"
    [] f = "entity_category" -> "Config"
    [] f = "state_class" -> "Measurement"
    [] f = "qos" -> IF i = 1 THEN "AtLeastOnce" ELSE "ExactlyOnce"
    [] f \in {"enabled_by_default", "force_update"} -> Some(i = 1)
    [] f = "expire_after" -> Some(60)
    [] f = "device" -> Some(ValidDevice)
    [] f \in {"availability_topic", "json_attributes_topic"} ->
         Some("home/sensor/temp/aux")
    [] f \in {"availability_template", "json_attributes_template",
              "last_reset_value_template", "value_template"} ->
         Some("{{ value_json.temperature }}")
    [] OTHER -> Some("temp")

RECURSIVE SubsetsUpTo(_, _)
SubsetsUpTo(F, n) ==
  IF n = 0 THEN {{}}
  ELSE LET P == SubsetsUpTo(F, n - 1)
       IN  P \cup {T \cup {f} : T \in P, f \in F}

\* the Sensor values the encoding is exercised on: state_topic left at its
\* default or set, and at most MaxSensorSet other fields off their default
Sensors ==
  { [ f \in SensorFields |->
        IF f = "state_topic" THEN st
        ELSE IF f \in S THEN SensorAlt(f, i)
        ELSE SensorFieldDefault(f) ] :
    S \in SubsetsUpTo(SensorFields \ {"state_topic"}, MaxSensorSet),
    i \in 1..2, st \in {"", "home/sensor/temp/state"} }

(***************************************************************************)
(* The caller: construct, validate; or construct, encode, decode, encode.  *)
(***************************************************************************)
NoResult == [ok |-> TRUE, invalidities |-> <<>>]

NoDecode == DecodeError("not decoded")

ValidateInit ==
  /\ kind = "switch"
  /\ sw \in ValidationSwitches
  /\ sn = SensorDefault
  /\ pc = "constructed"
  /\ res = NoResult
  /\ res2 = NoResult
  /\ wire = <<>>
  /\ dec = NoDecode
  /\ wire2 = <<>>

Validate ==
  /\ kind = "switch"
  /\ pc = "constructed"
  /\ res' = SwitchValidate(sw)
  /\ pc' = "validated"
  /\ UNCHANGED <<kind, sw, sn, res2, wire, dec, wire2>>

Revalidate ==
  /\ kind = "switch"
  /\ pc = "validated"
  /\ res2' = SwitchValidate(sw)
  /\ pc' = "revalidated"
  /\ UNCHANGED <<kind, sw, sn, res, wire, dec, wire2>>

ValidateNext == Validate \/ Revalidate

ValidateSpec == ValidateInit /\ [][ValidateNext]_vars

CodecInit ==
  /\ \/ kind = "switch" /\ sw \in CodecSwitches /\ sn = SensorDefault
     \/ kind = "sensor" /\ sn \in Sensors /\ sw = SwitchDefault
  /\ pc = "constructed"
  /\ res = NoResult
  /\ res2 = NoResult
  /\ wire = <<>>
  /\ dec = NoDecode
  /\ wire2 = <<>>

Encode ==
  /\ pc = "constructed"
  /\ wire' = IF kind = "switch" THEN SwitchEncode(sw) ELSE SensorEncode(sn)
  /\ pc' = "encoded"
  /\ UNCHANGED <<kind, sw, sn, res, res2, dec, wire2>>

\* the payload arrives from a peer of a later schema version, with one more key
ReceiveUnknownField ==
  /\ pc = "encoded"
  /\ wire' = Extend(wire, UnknownKey, "kitchen")
  /\ pc' = "extended"
  /\ UNCHANGED <<kind, sw, sn, res, res2, dec, wire2>>

\* the payload arrives without its state_topic
ReceiveTruncated ==
  /\ pc = "encoded"
  /\ "state_topic" \in DOMAIN wire
  /\ wire' = Without(wire, "state_topic")
  /\ pc' = "truncated"
  /\ UNCHANGED <<kind, sw, sn, res, res2, dec, wire2>>

Decode ==
  /\ pc \in {"encoded", "extended", "truncated"}
  /\ dec' = IF kind = "switch" THEN SwitchDecode(wire) ELSE SensorDecode(wire)
  /\ pc' = "decoded"
  /\ UNCHANGED <<kind, sw, sn, res, res2, wire, wire2>>

Reencode ==
  /\ pc = "decoded"
  /\ dec.ok
  /\ wire2' = IF kind = "switch" THEN SwitchEncode(dec.value)
              ELSE SensorEncode(dec.value)
  /\ pc' = "reencoded"
  /\ UNCHANGED <<kind, sw, sn, res, res2, wire, dec>>

CodecNext ==
  Encode \/ ReceiveUnknownField \/ ReceiveTruncated \/ Decode \/ Reencode

CodecSpec == CodecInit /\ [][CodecNext]_vars

(***************************************************************************)
(* Properties of Switch::validate, checked under ValidateSpec.             *)
(***************************************************************************)
TopicEmpty == [variant |-> "Topic", inner |-> "Empty"]

PayloadEmpty == [variant |-> "Payload", inner |-> "Empty"]

TemplateEmpty == [variant |-> "Template", inner |-> "Empty"]

AvailabilityConflict == [variant |-> "AvailabilityConflict", inner |-> "Unit"]

\* what one optional string field contributes: nothing when absent or
\* well-formed, one violation of its kind when it holds the empty string
FieldViolations(opt, v) ==
  IF opt = None THEN <<>> ELSE IF opt[1] = "" THEN <<v>> ELSE <<>>

Count(s, x) == Cardinality({i \in 1..Len(s) : s[i] = x})

\* C1: a Switch whose command_topic and state_on are both the empty string
\* gets, from one validate() call, an error holding the Topic violation of
\* command_topic and, after it, the Payload violation of state_on; with
\* nothing else wrong these two are the whole result.
C1_BothViolationsReported ==
  (pc = "validated" /\ sw.command_topic = Some("") /\ sw.state_on = Some(""))
  => /\ ~res.ok
     /\ \E i, j \in 1..Len(res.invalidities) :
          /\ i < j
          /\ res.invalidities[i] = TopicEmpty
          /\ res.invalidities[j] = PayloadEmpty
     /\ ( /\ sw.entity = EntityDefault
          /\ sw.payload_on = None /\ sw.payload_off = None
          /\ sw.state_topic = None /\ sw.state_off = None
          /\ sw.value_template = None )
        => res.invalidities = <<TopicEmpty, PayloadEmpty>>

C1_Witness ==
  /\ pc = "validated"
  /\ sw.command_topic = Some("") /\ sw.state_on = Some("")
  /\ sw.payload_on = Some("ON") /\ sw.state_topic = None
  /\ res.invalidities = <<TopicEmpty, PayloadEmpty>>

\* the concatenation C2 names, written field by field in the claimed order
C2_Expected(s) ==
  EntityValidate(s.entity)
    \o FieldViolations(s.command_topic, TopicEmpty)
    \o FieldViolations(s.payload_on, PayloadEmpty)
    \o FieldViolations(s.payload_off, PayloadEmpty)
    \o FieldViolations(s.state_topic, TopicEmpty)
    \o FieldViolations(s.state_on, PayloadEmpty)
    \o FieldViolations(s.state_off, PayloadEmpty)
    \o FieldViolations(s.value_template, TemplateEmpty)

\* C2: the result of validate() is the concatenation of the violations of the
\* embedded entity, command_topic, payload_on, payload_off, state_topic,
\* state_on, state_off, value_template, in that order; it is valid exactly
\* when the concatenation is empty.
C2_ResultIsOrderedConcatenation ==
  pc = "validated"
  => /\ res.invalidities = C2_Expected(sw)
     /\ res.ok <=> (C2_Expected(sw) = <<>>)

C2_Witness ==
  /\ pc = "validated"
  /\ sw.entity.availability # <<>> /\ sw.entity.availability_topic # None
  /\ sw.command_topic = Some("") /\ sw.payload_on = Some("")
  /\ sw.payload_off = Some("ON")
  /\ sw.state_topic = Some("") /\ sw.value_template = Some("")
  /\ Len(res.invalidities) >= 5

\* the fields of one kind that Switch::validate checks
TopicFields == {"command_topic", "state_topic"}

PayloadFields == {"payload_on", "payload_off", "state_on", "state_off"}

TemplateFields == {"value_template"}

IllFormed(s, f) == s[f] # None /\ s[f][1] = ""

Swap(s, f, g) == [s EXCEPT ![f] = s[g], ![g] = s[f]]

SameKindPairs ==
  (TopicFields \X TopicFields) \cup (PayloadFields \X PayloadFields)

\* C3 as claimed: every violation identifies the field that produced it, so
\* moving an ill-formed value from one field to another field of the same
\* kind changes the result.
C3_KeyedByField ==
  pc = "validated"
  => \A p \in SameKindPairs :
       (IllFormed(sw, p[1]) /\ ~IllFormed(sw, p[2]))
       => SwitchValidate(Swap(sw, p[1], p[2])) # res

\* C3 as amended: every violation carries the kind of value that failed
\* (Topic, Payload, Template, or a variant of the embedded entity), never the
\* field: there are as many violations of a kind as ill-formed fields of that
\* kind, and exchanging payload_on with payload_off, state_on with state_off,
\* or (no payload between them being ill-formed) command_topic with
\* state_topic leaves the result the same.
C3_TaggedByKindNotField ==
  pc = "validated"
  => /\ \A i \in 1..Len(res.invalidities) :
          res.invalidities[i].variant
            \in {"Topic", "Payload", "Template", "AvailabilityConflict", "Device"}
     /\ Count(res.invalidities, TopicEmpty)
          = Cardinality({f \in TopicFields : IllFormed(sw, f)})
     /\ Count(res.invalidities, PayloadEmpty)
          = Cardinality({f \in PayloadFields : IllFormed(sw, f)})
     /\ Count(res.invalidities, TemplateEmpty)
          = Cardinality({f \in TemplateFields : IllFormed(sw, f)})
     /\ SwitchValidate(Swap(sw, "payload_on", "payload_off")) = res
     /\ SwitchValidate(Swap(sw, "state_on", "state_off")) = res
     /\ (~IllFormed(sw, "payload_on") /\ ~IllFormed(sw, "payload_off"))
        => SwitchValidate(Swap(sw, "command_topic", "state_topic")) = res

C3_Witness ==
  /\ pc = "validated"
  /\ sw.command_topic = Some("") /\ sw.state_topic = Some("home/switch/1")
  /\ res.invalidities = <<TopicEmpty>>
  /\ SwitchValidate(Swap(sw, "command_topic", "state_topic")) = res

\* the two forms C4 names
C4_FormA(s) == ~is_none(s.command_topic) /\ s.optimistic = Some(TRUE)

C4_FormB(s) ==
  /\ ~is_none(s.payload_on) /\ ~IllFormed(s, "payload_on")
  /\ ~is_none(s.payload_off) /\ ~IllFormed(s, "payload_off")
  /\ ~is_none(s.state_topic)

\* C4 as claimed: a Switch is reported valid only if it has command_topic
\* with optimistic mode, or both on/off payloads with a state topic.
C4_CrossFieldRelationEnforced ==
  (pc = "validated" /\ res.ok) => (C4_FormA(sw) \/ C4_FormB(sw))

\* C4 as amended: validate() enforces no relation among the fields: a Switch
\* is reported valid exactly when its embedded entity is valid and each of the
\* seven checked fields is absent or well-formed, whatever optimistic holds.
C4_ValidIffEachFieldWellFormed ==
  pc = "validated"
  => ( res.ok <=>
         /\ EntityValidate(sw.entity) = <<>>
         /\ \A f \in TopicFields \cup PayloadFields \cup TemplateFields :
              ~IllFormed(sw, f) )

C4_Witness ==
  /\ pc = "validated"
  /\ res.ok
  /\ ~C4_FormA(sw) /\ ~C4_FormB(sw)
  /\ sw.command_topic = None /\ sw.state_topic = None /\ sw.optimistic = None

C10_UncheckedFieldsIgnored ==
  /\ pc \in {"validated", "revalidated"}
     => \A o \in OptionOf(BOOLEAN), r \in OptionOf(BOOLEAN),
           d \in OptionOf(DeviceClassValues) :
          SwitchValidate([sw EXCEPT !.optimistic = o, !.retain = r,
                                    !.device_class = d]) = res
  /\ pc = "revalidated" => res2 = res

C10_Witness ==
  /\ pc = "revalidated"
  /\ sw.optimistic = Some(TRUE)
  /\ ~res.ok /\ res2 = res
  /\ SwitchValidate([sw EXCEPT !.optimistic = None, !.retain = Some(TRUE),
                               !.device_class = Some("Switch")]) = res

(***************************************************************************)
(* Properties of the wire encoding, checked under CodecSpec.               *)
(***************************************************************************)
\* C6: encoding a Sensor or Switch whose device_class is at its "none"
\* variant emits no device_class key, and decoding a payload without that key
\* yields a device_class at the "none" variant.  For Switch, whose field is an
\* Option<DeviceClass>, both None and Some(DeviceClass::None) are "none".
C6_NoneDeviceClassOmitted ==
  /\ ( /\ pc = "encoded" /\ kind = "switch"
       /\ (is_none(sw.device_class) \/ sw.device_class = Some("None")) )
     => "device_class" \notin DOMAIN wire
  /\ (pc = "encoded" /\ kind = "sensor" /\ sn.device_class = "None")
     => "device_class" \notin DOMAIN wire
  /\ (pc = "decoded" /\ dec.ok /\ "device_class" \notin DOMAIN wire)
     => IF kind = "switch"
        THEN is_none(dec.value.device_class)
               \/ dec.value.device_class = Some("None")
        ELSE dec.value.device_class = "None"

\* C7: encoding a Sensor emits state_topic always and every other field
\* exactly when it differs from the default of its type; a Sensor with only
\* state_topic set encodes to the single key state_topic.
C7_SensorEmitsOnlyNonDefaults ==
  (pc = "encoded" /\ kind = "sensor")
  => /\ DOMAIN wire
          = {"state_topic"}
              \cup {f \in SensorFields \ {"state_topic"} :
                      sn[f] # SensorFieldDefault(f)}
     /\ wire.state_topic = sn.state_topic
     /\ (sn = [SensorDefault EXCEPT !.state_topic = "home/sensor/temp/state"])
        => wire = [k \in {"state_topic"} |-> "home/sensor/temp/state"]

C7_Witness ==
  /\ pc = "encoded" /\ kind = "sensor"
  /\ sn = [SensorDefault EXCEPT !.state_topic = "home/sensor/temp/state"]
  /\ DOMAIN wire = {"state_topic"}

\* C8: for a Switch x that validate() reports valid, decoding encode(x)
\* succeeds and encoding the decoded value gives encode(x) again.
C8_SwitchRoundTripStable ==
  (kind = "switch" /\ SwitchValidate(sw).ok /\ wire = SwitchEncode(sw))
  => /\ pc \in {"decoded", "reencoded"} => dec.ok
     /\ pc = "reencoded" => wire2 = SwitchEncode(sw)

C8_Witness ==
  /\ pc = "reencoded" /\ kind = "switch"
  /\ SwitchValidate(sw).ok
  /\ sw.retain = None /\ sw.device_class = Some("Switch")
  /\ sw.optimistic = Some(FALSE) /\ sw.command_topic # None
  /\ sw.entity.availability # <<>>
  /\ wire = SwitchEncode(sw) /\ wire2 = wire
  /\ DOMAIN wire2 # SwitchOwnKeys \cup EntityKeys

\* C9: decoding a Sensor or Switch payload that holds an unrecognized key
\* succeeds and gives the value the payload without that key decodes to.
C9_UnknownKeyIgnored ==
  (pc = "decoded" /\ UnknownKey \in DOMAIN wire)
  => /\ dec.ok
     /\ dec = IF kind = "switch" THEN SwitchDecode(Without(wire, UnknownKey))
              ELSE SensorDecode(Without(wire, UnknownKey))

C9_Witness ==
  /\ pc = "decoded" /\ kind = "switch"
  /\ UnknownKey \in DOMAIN wire /\ "availability" \in DOMAIN wire
  /\ dec.ok /\ dec.value = sw

====
